---- MODULE Spec2Model ----
(***************************************************************************)
(* A model of OpenApiDocsGenPlugin (src/src/openapi_docs_gen/plugin.py):   *)
(* on_page_markdown scans a Markdown document for "::: docs.endpoint"      *)
(* blocks, extract_arguments parses each block line by line into an        *)
(* EndpointArguments, and generate_endpoint_docs renders it against the    *)
(* resolved OpenAPI tree held in self.spec.                                *)
(*                                                                         *)
(* Text is a sequence of one-character strings, so the three regular       *)
(* expressions of the plugin are computed on characters.  The fixed pieces *)
(* of the f-strings that build the output are kept as whole string tokens; *)
(* every "\n" and every character copied from the input is a token of its  *)
(* own.                                                                    *)
(*                                                                         *)
(* The initial state is the plugin after on_config has stored the resolved *)
(* tree in self.spec, at the call of on_page_markdown; MkDocs runs         *)
(* on_config before any page.  pydantic's ValidationError text is kept as  *)
(* the rejected field names and their reasons.                             *)
(***************************************************************************)
EXTENDS Integers, Sequences, FiniteSets, TLC

VARIABLES
    spec,          \* self.spec, the tree on_config loaded
    markdown,      \* the markdown argument of on_page_markdown
    pc,            \* position in on_page_markdown
    pos,           \* index in markdown where docs_pattern.sub searches next
    out,           \* the pieces docs_pattern.sub has emitted so far
    results,       \* one entry per call of replace_docs_endpoint that returned
    m,             \* the match handed to replace_docs_endpoint
    lines,         \* extract_arguments: tag_content.splitlines()
    li,            \* extract_arguments: index of the line the loop is at
    current_key,   \* extract_arguments: current_key
    arguments,     \* extract_arguments: arguments
    tips,          \* extract_arguments: tips
    args,          \* the EndpointArguments extract_arguments returned
    exc            \* the exception that left on_page_markdown, or "none"

vars == <<spec, markdown, pc, pos, out, results, m, lines, li, current_key,
          arguments, tips, args, exc>>

---------------------------------------------------------------------------
(* Bounds of the model. *)

\* most lines after the header lines in the body of a single-block document
MaxTail == 3
\* most items (text lines or blocks) of a multi-block document
MaxItems == 3
\* most lines after the path and method lines of a method-case document
MaxMethodTail == 2

---------------------------------------------------------------------------
(* Characters and str methods. *)

\* the characters \s and str.strip() treat as whitespace
Whitespace == {" ", "\t", "\n"}

UpperCase == <<"A", "B", "C", "D", "E", "F", "G", "H", "I", "J", "K", "L", "M",
               "N", "O", "P", "Q", "R", "S", "T", "U", "V", "W", "X", "Y", "Z">>
LowerCase == <<"a", "b", "c", "d", "e", "f", "g", "h", "i", "j", "k", "l", "m",
               "n", "o", "p", "q", "r", "s", "t", "u", "v", "w", "x", "y", "z">>
Digits == {"0", "1", "2", "3", "4", "5", "6", "7", "8", "9"}

Range(f) == {f[i] : i \in DOMAIN f}

\* the characters \w matches
WordChars == Range(UpperCase) \cup Range(LowerCase) \cup Digits \cup {"_"}

SetMin(S) == CHOOSE x \in S : \A y \in S : x <= y
SetMax(S) == CHOOSE x \in S : \A y \in S : y <= x

\* str.lower() of one character
LowerChar(c) ==
    IF c \in Range(UpperCase)
    THEN LowerCase[CHOOSE i \in DOMAIN UpperCase : UpperCase[i] = c]
    ELSE c

\* str.lower()
Lower(s) == [i \in DOMAIN s |-> LowerChar(s[i])]

\* str.upper() of one character
UpperChar(c) ==
    IF c \in Range(LowerCase)
    THEN UpperCase[CHOOSE i \in DOMAIN LowerCase : LowerCase[i] = c]
    ELSE c

\* str.upper()
Upper(s) == [i \in DOMAIN s |-> UpperChar(s[i])]

\* str.strip()
Strip(s) ==
    LET keep == {i \in DOMAIN s : s[i] \notin Whitespace}
    IN  IF keep = {} THEN <<>> ELSE SubSeq(s, SetMin(keep), SetMax(keep))

\* the text from index i on
From(s, i) == SubSeq(s, i, Len(s))

\* the literal lit occurs in s at index i
LitAt(s, i, lit) ==
    /\ i >= 1
    /\ i + Len(lit) - 1 <= Len(s)
    /\ \A k \in 1..Len(lit) : s[i + k - 1] = lit[k]

RECURSIVE splitlines(_)
\* str.splitlines(): no empty last line after a final line break
splitlines(s) ==
    IF s = <<>> THEN <<>>
    ELSE LET brk == {i \in DOMAIN s : s[i] = "\n"}
         IN  IF brk = {} THEN <<s>>
             ELSE <<SubSeq(s, 1, SetMin(brk) - 1)>>
                      \o splitlines(From(s, SetMin(brk) + 1))

RECURSIVE Flatten(_)
Flatten(ss) == IF ss = <<>> THEN <<>> ELSE Head(ss) \o Flatten(Tail(ss))

RECURSIVE JoinLines(_)
\* "\n".join(ls)
JoinLines(ls) ==
    IF ls = <<>> THEN <<>>
    ELSE IF Len(ls) = 1 THEN ls[1]
    ELSE ls[1] \o <<"\n">> \o JoinLines(Tail(ls))

---------------------------------------------------------------------------
(* Optional values and the EndpointArguments model. *)

None == [isNone |-> TRUE, v |-> <<>>]
Some(x) == [isNone |-> FALSE, v |-> x]

kPath == <<"p", "a", "t", "h">>
kHttpMethod == <<"h", "t", "t", "p", "_", "m", "e", "t", "h", "o", "d">>
kEndpointTitle == <<"e", "n", "d", "p", "o", "i", "n", "t", "_", "t", "i", "t", "l", "e">>
kEndpointIcon == <<"e", "n", "d", "p", "o", "i", "n", "t", "_", "i", "c", "o", "n">>
kTips == <<"t", "i", "p", "s">>

\* a value of the arguments dict: a str or a list of str
StrVal(s) == [t |-> "str", v |-> s]
ListVal(l) == [t |-> "list", v |-> l]

\* dict.get on a function used as a dict
Has(d, k) == k \in DOMAIN d

\* d[k] = val
DictSet(d, k, val) ==
    [x \in DOMAIN d \cup {k} |-> IF x = k THEN val ELSE d[x]]

EmptyDict == [x \in {} |-> None]

NoArgs == [path |-> <<>>, http_method |-> None, endpoint_title |-> None,
           endpoint_icon |-> None, tips |-> None]

\* an Optional[str] field: a key the dict lacks keeps the default None
OptStr(d, k) == IF Has(d, k) THEN Some(d[k].v) ELSE None

\* the fields pydantic rejects, in field order
ValidationErrors(d) ==
    (IF Has(d, kPath) THEN <<>> ELSE <<[field |-> "path", msg |-> "Field required"]>>)
    \o (IF Has(d, kTips) /\ d[kTips].t # "list"
        THEN <<[field |-> "tips", msg |-> "Input should be a valid list"]>>
        ELSE <<>>)

\* the EndpointArguments built from the dict when no field is rejected; keys that are
\* no field of the model are ignored
EndpointArguments(d) ==
    [path |-> d[kPath].v,
     http_method |-> OptStr(d, kHttpMethod),
     endpoint_title |-> OptStr(d, kEndpointTitle),
     endpoint_icon |-> OptStr(d, kEndpointIcon),
     tips |-> IF Has(d, kTips) THEN Some(d[kTips].v) ELSE None]

RECURSIVE ErrorLines(_)
ErrorLines(errs) ==
    IF errs = <<>> THEN <<>>
    ELSE <<"\n", Head(errs).field, "\n", "  ", Head(errs).msg>> \o ErrorLines(Tail(errs))

\* str(e) of the ValidationError
ValidationErrorText(errs) ==
    <<ToString(Len(errs)), " validation error(s) for EndpointArguments">> \o ErrorLines(errs)

---------------------------------------------------------------------------
(* The regular expressions. *)

\* the width \s{4} of continuation_pattern asks for
IndentWidth == 4

\* "::: docs\.endpoint\n", the literal head of docs_pattern
OpenLit == <<":", ":", ":", " ", "d", "o", "c", "s", ".", "e", "n", "d", "p", "o", "i", "n", "t", "\n">>
\* "\n:::", the literal tail of docs_pattern
CloseLit == <<"\n", ":", ":", ":">>

NoMatch == [found |-> FALSE, start |-> 0, stop |-> 0, group1 |-> <<>>]

\* docs_pattern.search(s, from): the leftmost index where the head occurs
\* and, for the non-greedy (.*?) under DOTALL, the first tail at or after
\* the end of the head.  stop is the index after the match.
docs_pattern(s, from) ==
    LET tails(b) == {q \in b..Len(s) : LitAt(s, q, CloseLit)}
        starts == {i \in from..Len(s) :
                      LitAt(s, i, OpenLit) /\ tails(i + Len(OpenLit)) # {}}
    IN  IF starts = {} THEN NoMatch
        ELSE LET i == SetMin(starts)
                 b == i + Len(OpenLit)
                 q == SetMin(tails(b))
             IN  [found |-> TRUE, start |-> i, stop |-> q + Len(CloseLit),
                  group1 |-> SubSeq(s, b, q - 1)]

\* number of leading characters of s, from index i on, that lie in S
RunLen(s, i, S) ==
    LET stops == {j \in i..Len(s) : s[j] \notin S}
    IN  IF stops = {} THEN Len(s) - i + 1 ELSE SetMin(stops) - i

\* arg_pattern.match(line) for ^\s*(\w+):\s*(.*)$ : the greedy runs leave
\* one way to match
arg_pattern(line) ==
    LET ws == RunLen(line, 1, Whitespace)
        w == RunLen(line, ws + 1, WordChars)
        colon == ws + w + 1
    IN  IF w >= 1 /\ colon <= Len(line) /\ line[colon] = ":"
        THEN [matched |-> TRUE,
              key |-> SubSeq(line, ws + 1, ws + w),
              value |-> From(line, colon + 1 + RunLen(line, colon + 1, Whitespace))]
        ELSE [matched |-> FALSE, key |-> <<>>, value |-> <<>>]

\* the pattern with \s{2} for \s{4}
continuation_pattern_two(line) ==
    IF /\ Len(line) > IndentWidth - 2
       /\ \A i \in 1..(IndentWidth - 2) : line[i] \in Whitespace
    THEN [matched |-> TRUE, group1 |-> From(line, IndentWidth - 1)]
    ELSE [matched |-> FALSE, group1 |-> <<>>]

\* continuation_pattern.match(line) for ^\s{4}(.+)$
continuation_pattern(line) ==
    IF /\ Len(line) > IndentWidth
       /\ \A i \in 1..IndentWidth : line[i] \in Whitespace
    THEN [matched |-> TRUE, group1 |-> From(line, IndentWidth + 1)]
    ELSE [matched |-> FALSE, group1 |-> <<>>]

---------------------------------------------------------------------------
(* Rendering. *)

RECURSIVE TipLines(_)
\* the for loop of generate_tips_section
TipLines(ts) ==
    IF ts = <<>> THEN <<>>
    ELSE <<" ", " ", " ", " ">> \o Head(ts) \o <<"\n">> \o TipLines(Tail(ts))

TipHeader == "!!! tip \"Method Tips\""

generate_tips_section(ts) ==
    IF ts = <<>> THEN <<>> ELSE <<TipHeader, "\n">> \o TipLines(ts)

Raise(e) == [raised |-> e, text |-> <<>>]

\* the H2 line of generate_endpoint_docs
TitleLine(a) ==
    IF ~a.endpoint_title.isNone /\ a.endpoint_title.v # <<>>
    THEN <<"## <icon class=\"">>
         \o (IF a.endpoint_icon.isNone THEN <<"None">> ELSE a.endpoint_icon.v)
         \o <<"\" />&nbsp; ">> \o a.endpoint_title.v
         \o <<" {: data-toc-label=\"">> \o a.endpoint_title.v
         \o <<"\" : .custom-header}", "\n">>
    ELSE <<>>

\* stands for the grave accent character, which a TLA+ string cannot hold
Backtick == "<grave accent>"

\* the H3 line of generate_endpoint_docs
MethodLine(a, method_spec) ==
    <<"### <span class=\"http-">>
    \o (IF Lower(a.http_method.v) # <<>> THEN Lower(a.http_method.v) ELSE <<"any">>)
    \o <<"\">">>
    \o (IF a.http_method.v # <<>> THEN a.http_method.v ELSE <<"ANY">>)
    \o <<"</span>", Backtick, " ">> \o a.path \o <<Backtick, " -- ", method_spec["summary"],
         " { : data-toc-label=\"">>
    \o a.http_method.v \o <<" ", method_spec["summary"], "\" : .styled-as-h2 }",
         "\n", "\n">>

\* the tips part of generate_endpoint_docs
TipsPart(a) ==
    IF ~a.tips.isNone /\ a.tips.v # <<>>
    THEN generate_tips_section(a.tips.v) \o <<"\n", "\n">>
    ELSE <<>>

\* the lookup with .lower() left out
LookupMethodAsWritten(a) == a.http_method.v

\* the key the method lookup of generate_endpoint_docs uses
LookupMethod(a) == Lower(a.http_method.v)

\* generate_endpoint_docs(args) with self.spec = s: the text, or the
\* exception the first failing expression raises
generate_endpoint_docs(s, a) ==
    IF ~Has(s["paths"], a.path) THEN Raise("AttributeError")
    ELSE IF a.http_method.isNone THEN Raise("AttributeError")
    ELSE LET path_item == s["paths"][a.path]
         IN  IF ~Has(path_item, LookupMethod(a)) THEN Raise("TypeError")
             ELSE LET method_spec == path_item[LookupMethod(a)]
                  IN  IF ~Has(method_spec, "summary") THEN Raise("KeyError")
                      ELSE IF ~Has(method_spec, "description") THEN Raise("KeyError")
                      ELSE [raised |-> "none",
                            text |-> TitleLine(a) \o MethodLine(a, method_spec)
                                     \o <<method_spec["description"], "\n", "\n">>
                                     \o TipsPart(a)]

\* the text replace_docs_endpoint returns for a ValueError
ErrorText(errs) ==
    <<"**Error parsing docs.endpoint**: ", "Invalid arguments in docs.endpoint: ">>
    \o ValidationErrorText(errs)

---------------------------------------------------------------------------
(* The inputs: resolved trees and documents. *)

pA == <<"/", "a">>
mGet == <<"g", "e", "t">>
mPost == <<"p", "o", "s", "t">>
mDelete == <<"d", "e", "l", "e", "t", "e">>
mPut == <<"p", "u", "t">>

\* a tree as prance resolves it: path -> method -> operation.  /a has a
\* complete get and put, a post without summary and a delete without
\* description, and no head.
UsersTree ==
    [paths |->
        (pA :> (mGet :> ("summary" :> "List users" @@ "description" :> "Returns all users.")
                @@ mPut :> ("summary" :> "Replace users" @@ "description" :> "Replaces all users.")
                @@ mPost :> ("description" :> "Creates a user.")
                @@ mDelete :> ("summary" :> "Delete user")))]

SpecTrees == {UsersTree}

OpenLine == <<":", ":", ":", " ", "d", "o", "c", "s", ".", "e", "n", "d", "p", "o", "i", "n", "t">>
CloseLine == <<":", ":", ":">>

lnPathA == <<"p", "a", "t", "h", ":", " ", "/", "a">>
lnPathBlank == <<"p", "a", "t", "h", ":", " ", " ">>
lnPathZ == <<"p", "a", "t", "h", ":", " ", "/", "z", "z">>
lnGET == <<"h", "t", "t", "p", "_", "m", "e", "t", "h", "o", "d", ":", " ", "G", "E", "T">>
lnGet == <<"h", "t", "t", "p", "_", "m", "e", "t", "h", "o", "d", ":", " ", "G", "e", "t">>
lnget == <<"h", "t", "t", "p", "_", "m", "e", "t", "h", "o", "d", ":", " ", "g", "e", "t">>
lngEt == <<"h", "t", "t", "p", "_", "m", "e", "t", "h", "o", "d", ":", " ", "g", "E", "t">>
lnPUT == <<"h", "t", "t", "p", "_", "m", "e", "t", "h", "o", "d", ":", " ", "P", "U", "T">>
lnhead == <<"h", "t", "t", "p", "_", "m", "e", "t", "h", "o", "d", ":", " ", "h", "e", "a", "d">>
lnpost == <<"h", "t", "t", "p", "_", "m", "e", "t", "h", "o", "d", ":", " ", "p", "o", "s", "t">>
lndelete == <<"h", "t", "t", "p", "_", "m", "e", "t", "h", "o", "d", ":", " ", "d", "e", "l", "e", "t", "e">>
lnTitle == <<"e", "n", "d", "p", "o", "i", "n", "t", "_", "t", "i", "t", "l", "e", ":", " ", "T">>
lnTips == <<"t", "i", "p", "s", ":">>
lnTipsInline == <<"t", "i", "p", "s", ":", " ", "h">>
lnTipX == <<" ", " ", " ", " ", "x", " ">>
lnTipY == <<" ", " ", " ", " ", "y">>
lnTwoSpaces == <<" ", " ", "z">>
lnEmpty == <<>>
lnFiveSpaces == <<" ", " ", " ", " ", " ">>
lnNote == <<" ", " ", " ", " ", "N", ":", " ", "t">>
lnIntro == <<"i", "n", "t", "r", "o">>

Block(body) == <<OpenLine>> \o body \o <<CloseLine>>

\* sequences over S of length at most n
SeqsUpTo(S, n) == UNION {[1..k -> S] : k \in 0..n}

\* the items a multi-block document is made of, each a list of lines
Items ==
    {<<lnIntro>>,
     Block(<<lnPathA, lnGET>>), Block(<<lnPathA, lnget>>), Block(<<lnPathA>>),
     Block(<<lnget>>), Block(<<lnPathBlank, lnget>>), Block(<<lnPathZ, lnget>>),
     Block(<<lnPathA, lnhead>>), Block(<<lnPathA, lnpost>>),
     Block(<<lnPathA, lndelete>>), Block(<<>>),
     Block(<<lnPathA, lnget, lnTips, lnTipX>>)}

Documents == {JoinLines(Flatten(is)) : is \in SeqsUpTo(Items, MaxItems)}

\* the lines a single block starts with
Headers == {<<>>, <<lnPathA>>, <<lnPathA, lnGet>>}

\* the lines that follow them
TailLines == {lnTips, lnTipsInline, lnTipX, lnTipY, lnTwoSpaces, lnEmpty,
              lnFiveSpaces, lnNote, lnTitle}

BlockDocuments ==
    {JoinLines(Block(h \o t)) : h \in Headers, t \in SeqsUpTo(TailLines, MaxTail)}

\* blocks that give the method in every letter case
PathLines == {<<>>, <<lnPathA>>, <<lnPathZ>>}
MethodLines == {<<>>, <<lnGET>>, <<lnGet>>, <<lnget>>, <<lngEt>>, <<lnPUT>>,
                <<lnhead>>, <<lnpost>>}
MethodTailLines == {lnTips, lnTipX, lnTitle}

MethodDocuments ==
    {JoinLines(Block(p \o h \o t)) :
        p \in PathLines, h \in MethodLines, t \in SeqsUpTo(MethodTailLines, MaxMethodTail)}

---------------------------------------------------------------------------
(* on_page_markdown. *)

Start(docs) ==
    /\ spec \in SpecTrees
    /\ markdown \in docs
    /\ pc = "sub"
    /\ pos = 1
    /\ out = <<>>
    /\ results = <<>>
    /\ m = NoMatch
    /\ lines = <<>>
    /\ li = 1
    /\ current_key = None
    /\ arguments = EmptyDict
    /\ tips = <<>>
    /\ args = NoArgs
    /\ exc = "none"

Init == Start(Documents)

InitBlock == Start(BlockDocuments)

InitMethod == Start(MethodDocuments)

\* docs_pattern.sub finds the next match and calls replace_docs_endpoint,
\* which enters extract_arguments
Match ==
    /\ pc = "sub"
    /\ docs_pattern(markdown, pos).found
    /\ m' = docs_pattern(markdown, pos)
    /\ out' = out \o SubSeq(markdown, pos, m'.start - 1)
    /\ lines' = splitlines(m'.group1)
    /\ li' = 1
    /\ current_key' = None
    /\ arguments' = EmptyDict
    /\ tips' = <<>>
    /\ pc' = "extract"
    /\ UNCHANGED <<spec, markdown, pos, results, args, exc>>

\* docs_pattern.sub finds no further match and returns
Return ==
    /\ pc = "sub"
    /\ ~docs_pattern(markdown, pos).found
    /\ out' = out \o From(markdown, pos)
    /\ pos' = Len(markdown) + 1
    /\ pc' = "done"
    /\ UNCHANGED <<spec, markdown, results, m, lines, li, current_key, arguments,
                   tips, args, exc>>

\* the loop body for a line arg_pattern matches
KeyLine ==
    /\ pc = "extract"
    /\ li <= Len(lines)
    /\ arg_pattern(lines[li]).matched
    /\ LET am == arg_pattern(lines[li])
       IN  /\ current_key' = Some(am.key)
           /\ arguments' =
                 IF Strip(am.value) # <<>>
                 THEN DictSet(arguments, am.key, StrVal(Strip(am.value)))
                 ELSE IF am.key = kTips
                 THEN DictSet(arguments, am.key, ListVal(<<>>))
                 ELSE arguments
    /\ li' = li + 1
    /\ UNCHANGED <<spec, markdown, pc, pos, out, results, m, lines, tips, args, exc>>

\* the elif branch taken under any current key
TipsLineUnderAnyKey ==
    /\ pc = "extract"
    /\ li <= Len(lines)
    /\ ~arg_pattern(lines[li]).matched
    /\ ~current_key.isNone
    /\ LET cm == continuation_pattern(lines[li])
       IN  tips' = IF cm.matched THEN Append(tips, Strip(cm.group1)) ELSE tips
    /\ li' = li + 1
    /\ UNCHANGED <<spec, markdown, pc, pos, out, results, m, lines, current_key,
                   arguments, args, exc>>

\* the loop body for another line while current_key is "tips"
TipsLine ==
    /\ pc = "extract"
    /\ li <= Len(lines)
    /\ ~arg_pattern(lines[li]).matched
    /\ current_key = Some(kTips)
    /\ LET cm == continuation_pattern(lines[li])
       IN  tips' = IF cm.matched THEN Append(tips, Strip(cm.group1)) ELSE tips
    /\ li' = li + 1
    /\ UNCHANGED <<spec, markdown, pc, pos, out, results, m, lines, current_key,
                   arguments, args, exc>>

\* the loop body for a line neither branch takes
SkipLine ==
    /\ pc = "extract"
    /\ li <= Len(lines)
    /\ ~arg_pattern(lines[li]).matched
    /\ current_key # Some(kTips)
    /\ li' = li + 1
    /\ UNCHANGED <<spec, markdown, pc, pos, out, results, m, lines, current_key,
                   arguments, tips, args, exc>>

\* the collected tips added only when the dict has no tips yet
WithTipsUnlessGiven(a, ts) ==
    IF ts # <<>> /\ ~Has(a, kTips) THEN DictSet(a, kTips, ListVal(ts)) ELSE a

\* arguments once the loop has ended and the collected tips are added
WithTips(a, ts) == IF ts # <<>> THEN DictSet(a, kTips, ListVal(ts)) ELSE a

Entry(kind, text) ==
    [start |-> m.start, stop |-> m.stop, kind |-> kind, text |-> text]

\* extract_arguments returns the validated model
Validated ==
    /\ pc = "extract"
    /\ li > Len(lines)
    /\ arguments' = WithTips(arguments, tips)
    /\ ValidationErrors(arguments') = <<>>
    /\ args' = EndpointArguments(arguments')
    /\ pc' = "generate"
    /\ UNCHANGED <<spec, markdown, pos, out, results, m, lines, li, current_key,
                   tips, exc>>

\* extract_arguments raises ValueError, which replace_docs_endpoint turns
\* into the replacement text
Rejected ==
    /\ pc = "extract"
    /\ li > Len(lines)
    /\ arguments' = WithTips(arguments, tips)
    /\ ValidationErrors(arguments') # <<>>
    /\ out' = out \o ErrorText(ValidationErrors(arguments'))
    /\ results' = Append(results, Entry("error", ErrorText(ValidationErrors(arguments'))))
    /\ pos' = m.stop
    /\ pc' = "sub"
    /\ UNCHANGED <<spec, markdown, m, lines, li, current_key, tips, args, exc>>

\* generate_endpoint_docs returns and its text replaces the match
Generated ==
    /\ pc = "generate"
    /\ generate_endpoint_docs(spec, args).raised = "none"
    /\ out' = out \o generate_endpoint_docs(spec, args).text
    /\ results' = Append(results, Entry("docs", generate_endpoint_docs(spec, args).text))
    /\ pos' = m.stop
    /\ pc' = "sub"
    /\ UNCHANGED <<spec, markdown, m, lines, li, current_key, arguments, tips,
                   args, exc>>

\* generate_endpoint_docs raises an exception that is no ValueError: it
\* passes replace_docs_endpoint and docs_pattern.sub and leaves
\* on_page_markdown
Raised ==
    /\ pc = "generate"
    /\ generate_endpoint_docs(spec, args).raised # "none"
    /\ exc' = generate_endpoint_docs(spec, args).raised
    /\ pc' = "raised"
    /\ UNCHANGED <<spec, markdown, pos, out, results, m, lines, li, current_key,
                   arguments, tips, args>>

Next ==
    \/ Match
    \/ Return
    \/ KeyLine
    \/ TipsLine
    \/ SkipLine
    \/ Validated
    \/ Rejected
    \/ Generated
    \/ Raised

\* documents of text lines and blocks
Spec == Init /\ [][Next]_vars

\* documents of one block
SpecBlock == InitBlock /\ [][Next]_vars

\* documents of one block, the method in every letter case
SpecMethod == InitMethod /\ [][Next]_vars

---------------------------------------------------------------------------
(* What the properties speak of. *)

Last(q) == q[Len(q)]

\* replace_docs_endpoint has returned for the match m
BlockReplaced == m.found /\ results # <<>> /\ Last(results).start = m.start

\* the match m was replaced by the text rendered from args
BlockRendered == BlockReplaced /\ Last(results).kind = "docs"

\* on_page_markdown has ended, by return or by exception
Ended == pc \in {"done", "raised"}

\* token tok occurs in text
Contains(text, tok) == \E i \in DOMAIN text : text[i] = tok

\* the tokens of text strictly between the first a and the first b after it
Between(text, a, b) ==
    LET i == SetMin({k \in DOMAIN text : text[k] = a})
        j == SetMin({k \in (i + 1)..Len(text) : text[k] = b})
    IN  SubSeq(text, i + 1, j - 1)

\* the method the H3 line shows
MethodShown(text) == Between(text, "\">", "</span>")

\* the summary the H3 line shows
SummaryShown(text) == Between(text, " -- ", " { : data-toc-label=\"")

\* the operation of tree s a (path, method) pair names is there and has
\* summary and description
Resolves(s, path, method) ==
    /\ path \in DOMAIN s.paths
    /\ method \in DOMAIN s.paths[path]
    /\ {"summary", "description"} \subseteq DOMAIN s.paths[path][method]

\* the lines of a document
DocLines(md) == splitlines(md)

RECURSIVE LineStart(_, _)
\* the index in the document of the first character of line i
LineStart(ls, i) == IF i = 1 THEN 1 ELSE LineStart(ls, i - 1) + Len(ls[i - 1]) + 1

RECURSIVE BlocksFrom(_, _)
\* the directive blocks of the lines ls from line i on: each opening marker
\* line with the nearest closing marker line after it
BlocksFrom(ls, i) ==
    LET opens == {a \in i..Len(ls) : ls[a] = OpenLine}
    IN  IF opens = {} THEN <<>>
        ELSE LET a == SetMin(opens)
                 closes == {c \in (a + 1)..Len(ls) : ls[c] = CloseLine}
             IN  IF closes = {} THEN <<>>
                 ELSE LET c == SetMin(closes)
                      IN  <<[start |-> LineStart(ls, a),
                             stop |-> LineStart(ls, c) + Len(CloseLine),
                             body |-> SubSeq(ls, a + 1, c - 1)]>>
                          \o BlocksFrom(ls, c + 1)

DirectiveBlocks(md) == BlocksFrom(DocLines(md), 1)

\* the value a block body gives for key k, as the last non-blank key line
\* for k gives it; <<>> when there is none
Given(body, k) ==
    LET at == {i \in DOMAIN body : /\ arg_pattern(body[i]).matched
                                   /\ arg_pattern(body[i]).key = k
                                   /\ Strip(arg_pattern(body[i]).value) # <<>>}
    IN  IF at = {} THEN <<>> ELSE Strip(arg_pattern(body[SetMax(at)]).value)

\* the entry of results for the block that starts at index a, if any
EntriesAt(a) == {i \in DOMAIN results : results[i].start = a}

RECURSIVE Reassemble(_, _, _)
\* the document md from index i on with the spans of the entries rs
\* replaced by their texts
Reassemble(md, i, rs) ==
    IF rs = <<>> THEN From(md, i)
    ELSE SubSeq(md, i, Head(rs).start - 1) \o Head(rs).text
         \o Reassemble(md, Head(rs).stop, Tail(rs))

---------------------------------------------------------------------------
(* C1: a block that parses and validates but whose (path, method) pair is  *)
(* absent from the resolved tree, or whose operation lacks summary or      *)
(* description, is replaced by an inline error text, and no exception      *)
(* leaves on_page_markdown.                                                *)

\* the block that was validated into args names a method, and the lookup
\* for it fails
LookupFails ==
    /\ ~args.http_method.isNone
    /\ ~Resolves(spec, args.path, Lower(args.http_method.v))

\* C1: a validated block whose lookup fails ends as an inline error text,
\* never as an exception
C1_LookupFailureIsInlineError ==
    (pc \in {"sub", "done", "raised"} /\ m.found /\ LookupFails
        /\ (pc = "raised" \/ BlockRendered))
        => /\ pc # "raised"
           /\ exc = "none"
           /\ Last(results).kind = "error"

---------------------------------------------------------------------------
(* C3: a block that gives only path, the path being in the resolved tree,  *)
(* is rendered: the output has the H3 heading with ANY for the method and  *)
(* the description, and no tips callout.                                   *)

PathOnly ==
    /\ args.http_method.isNone
    /\ args.endpoint_title.isNone
    /\ args.endpoint_icon.isNone
    /\ args.tips.isNone
    /\ args.path \in DOMAIN spec.paths

\* C3: a validated block that gives only a path of the tree is rendered,
\* with ANY in the heading and no callout
C3_PathOnlyBlockRenders ==
    (m.found /\ PathOnly /\ (pc = "raised" \/ BlockRendered))
        => /\ pc # "raised"
           /\ BlockRendered
           /\ MethodShown(Last(results).text) = <<"ANY">>
           /\ ~Contains(Last(results).text, TipHeader)

---------------------------------------------------------------------------
(* C4: on_page_markdown returns the document with each matched span        *)
(* replaced once, in order, by that block's rendered text or error text,   *)
(* and all text outside the spans unchanged; without a block the output is *)
(* the input.                                                              *)

\* C4: on_page_markdown ends by returning the document with the matched
\* spans replaced in order and the rest unchanged
C4_SpansReplacedRestUnchanged ==
    Ended
        => /\ pc = "done"
           /\ out = Reassemble(markdown, 1, results)
           /\ \A i \in DOMAIN results :
                 /\ docs_pattern(markdown, results[i].start).start = results[i].start
                 /\ i > 1 => results[i - 1].stop <= results[i].start
           /\ (DirectiveBlocks(markdown) = <<>> => out = markdown)

---------------------------------------------------------------------------
(* C6: block extraction matches every directive block once, in document    *)
(* order, each opening marker line paired with the nearest closing marker  *)
(* line after it, for bodies of any number of lines, zero included.        *)

\* C6: the matches of a returned run are the directive blocks of the
\* document, one each, in order
C6_EveryBlockMatchedOnce ==
    pc = "done"
        => /\ Len(results) = Len(DirectiveBlocks(markdown))
           /\ \A i \in DOMAIN results :
                 /\ results[i].start = DirectiveBlocks(markdown)[i].start
                 /\ results[i].stop = DirectiveBlocks(markdown)[i].stop

---------------------------------------------------------------------------
(* C2: a block without a path key, or with a blank path value, is replaced *)
(* by an inline error text that names the field path, and every sibling    *)
(* block that is well-formed and resolvable is still replaced by its       *)
(* rendered text, wherever the failing block stands.  Stated for documents *)
(* whose blocks all have a body line.                                      *)

MissingPath(b) == Given(b.body, kPath) = <<>>

WellFormedResolvable(b) ==
    /\ Given(b.body, kPath) # <<>>
    /\ Given(b.body, kHttpMethod) # <<>>
    /\ Resolves(spec, Given(b.body, kPath), Lower(Given(b.body, kHttpMethod)))

\* C2: once on_page_markdown has ended, every block without path has its
\* error text naming path and every resolvable sibling its rendered text
C2_MissingPathInlineSiblingsRender ==
    LET bs == DirectiveBlocks(markdown)
    IN  (/\ Ended
         /\ \A i \in DOMAIN bs : bs[i].body # <<>>
         /\ \E i \in DOMAIN bs : MissingPath(bs[i]))
            => \A i \in DOMAIN bs :
                  /\ MissingPath(bs[i]) =>
                        \E k \in EntriesAt(bs[i].start) :
                            /\ results[k].kind = "error"
                            /\ Contains(results[k].text, "path")
                  /\ WellFormedResolvable(bs[i]) =>
                        \E k \in EntriesAt(bs[i].start) : results[k].kind = "docs"

---------------------------------------------------------------------------
(* C7: the lookup uses the lowercased method for every letter case of the  *)
(* http_method value; the H3 heading shows the method.                     *)

MethodGiven == ~args.http_method.isNone

\* C7 as claimed: the heading shows the method uppercased
C7_LookupLowercasedHeadingUppercased ==
    (BlockRendered /\ MethodGiven)
        => /\ Resolves(spec, args.path, Lower(args.http_method.v))
           /\ SummaryShown(Last(results).text)
                 = <<spec.paths[args.path][Lower(args.http_method.v)].summary>>
           /\ MethodShown(Last(results).text) = Upper(args.http_method.v)

\* C7 as amended: the lookup uses the lowercased method, so every letter
\* case of a method resolves to the same operation, and the heading shows
\* the method as the block wrote it
C7_LookupLowercasedHeadingAsWritten ==
    /\ (BlockRendered /\ MethodGiven)
          => /\ Resolves(spec, args.path, Lower(args.http_method.v))
             /\ SummaryShown(Last(results).text)
                   = <<spec.paths[args.path][Lower(args.http_method.v)].summary>>
             /\ MethodShown(Last(results).text) = args.http_method.v
    /\ (pc = "raised" /\ MethodGiven)
          => ~Resolves(spec, args.path, Lower(args.http_method.v))

\* a block whose method is written in mixed case has been rendered
C7_MixedCaseRendered ==
    /\ BlockRendered
    /\ MethodGiven
    /\ args.http_method.v # Lower(args.http_method.v)
    /\ args.http_method.v # Upper(args.http_method.v)

---------------------------------------------------------------------------
(* The shape of a block body, line by line. *)

IsKeyLine(l) == arg_pattern(l).matched

KeyOf(l) == arg_pattern(l).key

\* the indices of the key lines for tips
TipsKeyIdx(ls) == {i \in DOMAIN ls : IsKeyLine(ls[i]) /\ KeyOf(ls[i]) = kTips}

\* the key of the most recent key line before line j, None without one
RecentKey(ls, j) ==
    LET before == {i \in 1..(j - 1) : IsKeyLine(ls[i])}
    IN  IF before = {} THEN None ELSE Some(KeyOf(ls[SetMax(before)]))

\* the last index of the run of lines after line i that are no key lines
RunEnd(ls, i) ==
    LET keys == {j \in (i + 1)..Len(ls) : IsKeyLine(ls[j])}
    IN  IF keys = {} THEN Len(ls) ELSE SetMin(keys) - 1

LeadingSpaces(l) == RunLen(l, 1, {" "})

\* indented by exactly 4 spaces, with content
FourSpaceLine(l) == LeadingSpaces(l) = IndentWidth /\ Len(l) > IndentWidth

\* indented by fewer than 4 spaces, with content
ShortIndentLine(l) == LeadingSpaces(l) < IndentWidth /\ Len(l) > LeadingSpaces(l)

\* the content of an indented line, trimmed
Content(l) == Strip(From(l, IndentWidth + 1))

\* line j continues a tips list: no key line, under a tips key line, and
\* matched by the continuation pattern
IsContinuation(ls, j) ==
    /\ ~IsKeyLine(ls[j])
    /\ RecentKey(ls, j) = Some(kTips)
    /\ continuation_pattern(ls[j]).matched

RECURSIVE ContentsUpTo(_, _)
\* the contents of the continuation lines among the first n lines
ContentsUpTo(ls, n) ==
    IF n = 0 THEN <<>>
    ELSE ContentsUpTo(ls, n - 1)
         \o (IF IsContinuation(ls, n) THEN <<Content(ls[n])>> ELSE <<>>)

\* the loop of extract_arguments has run over all lines of the match m
LoopEnded == m.found /\ (pc # "extract" \/ li > Len(lines))

\* extract_arguments has returned or raised for the match m
Extracted == m.found /\ pc # "extract"

\* extract_arguments has returned args for the match m
ArgsValid == pc \in {"generate", "raised"} \/ BlockRendered

---------------------------------------------------------------------------
(* C5: a blank-valued tips line followed by k >= 1 lines indented by       *)
(* exactly 4 spaces gives exactly those k trimmed contents, in order, and  *)
(* a callout of one header line and k tip lines each prefixed by 4 spaces; *)
(* a line indented by fewer than 4 spaces after tips is no tip.            *)

\* the only tips key line of the body, when there is exactly one
TheTipsLine(ls) == CHOOSE i \in TipsKeyIdx(ls) : TRUE

\* one tips key line, blank-valued, followed up to the next key line by
\* lines indented by 4 spaces or by fewer, at least one by 4
TipsListShape(ls) ==
    /\ Cardinality(TipsKeyIdx(ls)) = 1
    /\ LET i == TheTipsLine(ls)
       IN  /\ Strip(arg_pattern(ls[i]).value) = <<>>
           /\ \A j \in (i + 1)..RunEnd(ls, i) :
                 FourSpaceLine(ls[j]) \/ ShortIndentLine(ls[j])
           /\ \E j \in (i + 1)..RunEnd(ls, i) : FourSpaceLine(ls[j])

\* the trimmed contents of the lines indented by exactly 4 spaces
FourSpaceContents(ls) ==
    LET i == TheTipsLine(ls)
        run == SubSeq(ls, i + 1, RunEnd(ls, i))
        four == SelectSeq(run, FourSpaceLine)
    IN  [k \in DOMAIN four |-> Content(four[k])]

\* the tokens of text from the first tok on
FromToken(text, tok) == From(text, SetMin({k \in DOMAIN text : text[k] = tok}))

\* C5: after the loop tips is the trimmed contents of the 4-space lines, in
\* order, and the callout is the header line and one line per tip
C5_TipsListAndCallout ==
    (LoopEnded /\ TipsListShape(lines))
        => LET want == FourSpaceContents(lines)
               callout == splitlines(generate_tips_section(tips))
           IN  /\ tips = want
               /\ Len(callout) = Len(want) + 1
               /\ callout[1] = <<TipHeader>>
               /\ \A k \in DOMAIN want :
                     callout[k + 1] = <<" ", " ", " ", " ">> \o want[k]
               /\ ArgsValid => args.tips = Some(want)
               /\ BlockRendered =>
                     FromToken(Last(results).text, TipHeader)
                        = generate_tips_section(tips) \o <<"\n", "\n">>

\* a block with two tips after a blank tips line has been rendered
C5_TwoTipsRendered ==
    /\ BlockRendered
    /\ TipsListShape(lines)
    /\ Len(FourSpaceContents(lines)) >= 2

---------------------------------------------------------------------------
(* C8: a validated EndpointArguments has tips absent or a list, never a    *)
(* single string.  tips with a blank value and no continuation line gives  *)
(* an empty list that validates and renders no callout; tips with inline   *)
(* text and a continuation line gives the list of the continuation lines,  *)
(* the inline text discarded; tips with inline text and no continuation    *)
(* line fails validation and gives an inline error.                        *)

\* the one tips key line has inline text
TipsInline(ls) ==
    /\ Cardinality(TipsKeyIdx(ls)) = 1
    /\ Strip(arg_pattern(ls[TheTipsLine(ls)]).value) # <<>>

\* the one tips key line has a blank value
TipsBlank(ls) ==
    /\ Cardinality(TipsKeyIdx(ls)) = 1
    /\ Strip(arg_pattern(ls[TheTipsLine(ls)]).value) = <<>>

Continued(ls) == \E j \in DOMAIN ls : IsContinuation(ls, j)

\* C8: validated tips is absent or a list; the three cases of a tips key
\* line end as the claim says
C8_TipsIsListOrAbsent ==
    /\ ArgsValid =>
          /\ args.tips.isNone <=> ~Has(arguments, kTips)
          /\ Has(arguments, kTips) =>
                /\ arguments[kTips].t = "list"
                /\ args.tips = Some(arguments[kTips].v)
    /\ (Extracted /\ TipsBlank(lines) /\ ~Continued(lines)) =>
          /\ arguments[kTips].t = "list"
          /\ arguments[kTips].v = <<>>
          /\ BlockReplaced /\ Last(results).kind = "error"
                => ~Contains(Last(results).text, "tips")
          /\ ArgsValid => args.tips = Some(<<>>)
          /\ BlockRendered => ~Contains(Last(results).text, TipHeader)
    /\ (Extracted /\ TipsInline(lines) /\ Continued(lines)) =>
          /\ arguments[kTips].t = "list"
          /\ arguments[kTips].v = ContentsUpTo(lines, Len(lines))
          /\ BlockReplaced /\ Last(results).kind = "error"
                => ~Contains(Last(results).text, "tips")
          /\ ArgsValid => args.tips = Some(ContentsUpTo(lines, Len(lines)))
    /\ (Extracted /\ TipsInline(lines) /\ ~Continued(lines)) =>
          /\ BlockReplaced
          /\ Last(results).kind = "error"
          /\ Contains(Last(results).text, "tips")

\* a block with inline tips text and a continuation line has been rendered
C8_InlineTipsOverwritten ==
    /\ BlockRendered
    /\ TipsInline(lines)
    /\ Continued(lines)

---------------------------------------------------------------------------
(* C9: a blank line (empty or only whitespace, of any length) is ignored   *)
(* in every parser state: it records no key, leaves the current key and    *)
(* appends nothing to the tips.                                            *)

\* C9: the loop step for a blank line changes neither current_key nor
\* arguments nor tips
C9_BlankLineIgnored ==
    [][(pc = "extract" /\ li <= Len(lines) /\ Strip(lines[li]) = <<>>)
          => (current_key' = current_key /\ arguments' = arguments /\ tips' = tips)]_vars

---------------------------------------------------------------------------
(* C10: a line is appended to the tips only while the most recent key line *)
(* is tips; every line that matches the key:value pattern becomes the      *)
(* current key and is no tip, so indented lines after any other key are    *)
(* ignored until another tips key line.                                    *)

\* C10: throughout the loop current_key is the key of the most recent key
\* line and tips holds only lines read under a tips key line
C10_TipsOnlyUnderTipsKey ==
    (m.found /\ pc = "extract")
        => /\ current_key = RecentKey(lines, li)
           /\ tips = ContentsUpTo(lines, li - 1)

\* an indented line after a key line that ended a tips list has been read
C10_IndentedLineAfterOtherKey ==
    /\ m.found
    /\ pc = "extract"
    /\ \E j \in 1..(li - 1) :
          /\ ~IsKeyLine(lines[j])
          /\ continuation_pattern(lines[j]).matched
          /\ RecentKey(lines, j) # Some(kTips)
          /\ \E i \in TipsKeyIdx(lines) : i < j

====
